---- MODULE Spec2Model ----
(***************************************************************************)
(* A model of the workload report analysis and comparison tools of         *)
(* pg_tuner_mcp (tools/workload.py): parse_workload_report,                *)
(* analyze_burst_report_impl, analyze_simulation_report and                *)
(* compare_reports_impl.                                                   *)
(*                                                                         *)
(* Numbers.  The float fields of a report (duration, tps, latencies) are   *)
(* integers counting 1/Scale of their unit, the int fields                 *)
(* (total_transactions, errors) are plain integers.  A computed float      *)
(* (a percentage, a mean) is the exact rational [num, den] with den > 0,   *)
(* and a comparison of it is done by cross-multiplication.                 *)
(*                                                                         *)
(* Text.  A formatted string is the record [fmt, args]: the format string  *)
(* of the source and the printed numbers, each in units of its last        *)
(* printed digit.  "; ".join(xs) is the sequence xs kept in order.         *)
(***************************************************************************)
EXTENDS Integers, Sequences, FiniteSets, TLC

VARIABLES fs, op, args, result, calls, heap

vars == <<fs, op, args, result, calls, heap>>

\* ------------------------------------------------------------- bounds
\* Resolution of a float field: values count 1/Scale of a unit.
Scale == 100
\* Longest embedded timeline enumerated over SampleVals.
MaxSamples == 4
\* Most lines in a timeline CSV file.
MaxLines == 3
\* Invocations in flight at the same time.
MaxCalls == 2

\* ------------------------------------------------- program constants
P99_THRESHOLD_MS == 100
ERROR_RATE_THRESHOLD_PCT == 1
SPIKE_FACTOR == 3
TPS_CHANGE_PCT == 5
LATENCY_CHANGE_PCT == 10
ERRORS_FLOOR == 10

\* ---------------------------------------------------------- JSON values
\* A JSON member of a mapping: absent, null, or a number.
Absent == [t |-> "absent", v |-> 0]
Null == [t |-> "null", v |-> 0]
Num(n) == [t |-> "num", v |-> n]

Fields ==
    {"actual_duration_seconds", "total_transactions", "tps", "avg_latency_ms",
     "p50_latency_ms", "p95_latency_ms", "p99_latency_ms", "errors"}

NoFields == [f \in Fields |-> Absent]

\* dict.get(key, default): the default only when the key is absent; a key
\* present with null gives None.
Get(m, key, default) == IF m[key].t = "absent" THEN default ELSE m[key]

\* A member holding a string (the "mode" key).
StrAbsent == [t |-> "absent", s |-> ""]
Str(x) == [t |-> "str", s |-> x]

\* The "timeline" key of a report: absent, not a list, or a list of sample
\* mappings; a sample is its "p99_latency_ms" member (Absent when the sample
\* has no such key).
NoTimeline == [t |-> "absent", items |-> <<>>]
NotListTimeline == [t |-> "notlist", items |-> <<>>]
Timeline(items) == [t |-> "list", items |-> items]

\* A decoded report: a JSON object.  `summaryMode` is the "mode" member of
\* the "summary" mapping, which no report written by pg_workload has.
Doc(mode, hasSummary, summary, top, timeline) ==
    [mode |-> mode, hasSummary |-> hasSummary, summary |-> summary,
     summaryMode |-> StrAbsent, top |-> top, timeline |-> timeline]

\* The report d with "mode": m added to its "summary" mapping.
WithSummaryMode(d, m) == [d EXCEPT !.summaryMode = m]

EmptyDoc == Doc(StrAbsent, FALSE, NoFields, NoFields, NoTimeline)

\* ---------------------------------------------------------------- files
\* A path of the filesystem: missing, or a file that is not decodable text,
\* text that is not JSON, or text that is a JSON object; `lines` is the file's
\* number of lines.
MissingFile == [exists |-> FALSE, content |-> "none", lines |-> 0, doc |-> EmptyDoc]
UndecodableFile == [exists |-> TRUE, content |-> "undecodable", lines |-> 1, doc |-> EmptyDoc]
GarbageFile == [exists |-> TRUE, content |-> "notjson", lines |-> 1, doc |-> EmptyDoc]
JsonFile(d) == [exists |-> TRUE, content |-> "json", lines |-> 1, doc |-> d]
CsvFile(n) == [exists |-> TRUE, content |-> "notjson", lines |-> n, doc |-> EmptyDoc]

\* ------------------------------------------------------------- outcomes
Raise(exc, msg) == [kind |-> "raise", exc |-> exc, msg |-> msg]
Return(v) == [kind |-> "return", value |-> v]

\* Path.exists()
Exists(f) == f.exists

\* open(path) ; json.load(f) under `except json.JSONDecodeError`: the decoded
\* object, or the exception that leaves the try statement.  A file that is
\* not decodable text raises UnicodeDecodeError from f.read(), which the
\* except clause does not catch.
JsonLoad(f) ==
    CASE f.content = "json" -> [ok |-> TRUE, data |-> f.doc, exc |-> "none"]
      [] f.content = "notjson" -> [ok |-> FALSE, data |-> EmptyDoc, exc |-> "JSONDecodeError"]
      [] OTHER -> [ok |-> FALSE, data |-> EmptyDoc, exc |-> "UnicodeDecodeError"]

\* The exception a failed load surfaces as: JSONDecodeError is turned into
\* ToolError("Invalid JSON in report file: ..."), anything else propagates.
LoadFailure(l) ==
    IF l.exc = "JSONDecodeError"
    THEN Raise("ToolError", "Invalid JSON in report file")
    ELSE Raise(l.exc, "")

\* ------------------------------------------------ parse_workload_report
\* Mutant: the fields always read from the top-level mapping.
FieldSource_TopLevel(data) == data.top

\* summary = data.get("summary", data)
FieldSource(data) == IF data.hasSummary THEN data.summary ELSE data.top

\* The value handed to WorkloadResult for each numeric field.
RawField(data, name) == Get(FieldSource(data), name, Num(0))

\* Mutant: mode read from the field source, like the numeric fields.
RawMode_FromSource(data) ==
    IF data.hasSummary
    THEN (IF data.summaryMode.t = "absent" THEN Str("burst") ELSE data.summaryMode)
    ELSE (IF data.mode.t = "absent" THEN Str("burst") ELSE data.mode)

\* data.get("mode", "burst")
RawMode(data) == IF data.mode.t = "absent" THEN Str("burst") ELSE data.mode

\* pydantic validation of WorkloadResult: every field is a required str,
\* float or int, so None is rejected.
Validates(data) ==
    /\ RawMode(data).t = "str"
    /\ \A name \in Fields : RawField(data, name).t = "num"

WorkloadResult(data) ==
    [mode |-> RawMode(data).s,
     duration_seconds |-> RawField(data, "actual_duration_seconds").v,
     total_transactions |-> RawField(data, "total_transactions").v,
     tps |-> RawField(data, "tps").v,
     avg_latency_ms |-> RawField(data, "avg_latency_ms").v,
     p50_latency_ms |-> RawField(data, "p50_latency_ms").v,
     p95_latency_ms |-> RawField(data, "p95_latency_ms").v,
     p99_latency_ms |-> RawField(data, "p99_latency_ms").v,
     errors |-> RawField(data, "errors").v]

parse_workload_report(data) ==
    IF Validates(data)
    THEN [ok |-> TRUE, workload |-> WorkloadResult(data)]
    ELSE [ok |-> FALSE, workload |-> WorkloadResult(EmptyDoc)]

\* ------------------------------------------------------------ arithmetic
Max(a, b) == IF a >= b THEN a ELSE b
Abs(a) == IF a < 0 THEN -a ELSE a

\* The float num/den (den > 0) as an exact rational.
Rat(num, den) == [num |-> num, den |-> den]

\* r > k and r < k for a rational r and an integer k.
RatGt(r, k) == r.num > k * r.den
RatLt(r, k) == r.num < k * r.den

\* num/den (den > 0) rounded to the nearest integer, ties to even: what a
\* format specification such as {:.0f} prints.
RoundHalfEven(num, den) ==
    LET q == num \div den
        r == num % den
    IN  IF 2 * r < den THEN q
        ELSE IF 2 * r > den THEN q + 1
        ELSE IF q % 2 = 0 THEN q ELSE q + 1

\* f"{x:.1f}" and f"{x:.2f}" of the float num/den, in tenths and in hundredths.
Fmt1(num, den) == RoundHalfEven(num * 10, den)
Fmt2(num, den) == RoundHalfEven(num * 100, den)
Fmt0(num, den) == RoundHalfEven(num, den)

Line(fmt, a) == [fmt |-> fmt, args |-> a]

\* ------------------------------------------------- RecommendationResult
Recommendation(category, parameter, current, suggested, confidence, restart, evidence, impact, risk) ==
    [category |-> category, parameter |-> parameter, current_value |-> current,
     suggested_value |-> suggested, confidence |-> confidence,
     restart_required |-> restart, evidence |-> evidence, impact |-> impact,
     risk |-> risk]

\* -------------------------------------------- analyze_burst_report_impl
\* Mutant: the threshold taken as inclusive.
HighP99_Inclusive(workload) == workload.p99_latency_ms >= P99_THRESHOLD_MS * Scale

\* if workload.p99_latency_ms > 100
HighP99(workload) == workload.p99_latency_ms > P99_THRESHOLD_MS * Scale

WorkMemRecommendation(workload) ==
    Recommendation("performance", "work_mem", "4MB", "64MB", "medium", FALSE,
        <<Line("P99 latency {:.1f}ms > 100ms threshold",
               <<Fmt1(workload.p99_latency_ms, Scale)>>)>>,
        "May reduce sort/hash spills to disk",
        "Increases per-connection memory usage")

\* error_rate = workload.errors / max(workload.total_transactions, 1) * 100
ErrorRate(workload) ==
    Rat(workload.errors * 100, Max(workload.total_transactions, 1))

\* if workload.errors > 0
HasErrors(workload) == workload.errors > 0

\* Mutant: a rate of exactly 1% counted as elevated.
HighErrorRate_Inclusive(workload) ==
    ErrorRate(workload).num >= ERROR_RATE_THRESHOLD_PCT * ErrorRate(workload).den

\* if error_rate > 1
HighErrorRate(workload) == RatGt(ErrorRate(workload), ERROR_RATE_THRESHOLD_PCT)

MaxConnectionsRecommendation(workload) ==
    Recommendation("connections", "max_connections", "100", "200", "low", TRUE,
        <<Line("Error rate {:.2f}% may indicate connection exhaustion",
               <<Fmt2(ErrorRate(workload).num, ErrorRate(workload).den)>>)>>,
        "Allows more concurrent connections",
        "Increases memory overhead per connection")

\* Mutant: the error-rate rule evaluated before the tail-latency rule.
BurstRecommendations_ErrorsFirst(workload) ==
    (IF HasErrors(workload) /\ HighErrorRate(workload)
     THEN <<MaxConnectionsRecommendation(workload)>> ELSE <<>>)
    \o (IF HighP99(workload) THEN <<WorkMemRecommendation(workload)>> ELSE <<>>)

BurstRecommendations(workload) ==
    (IF HighP99(workload) THEN <<WorkMemRecommendation(workload)>> ELSE <<>>)
    \o (IF HasErrors(workload) /\ HighErrorRate(workload)
        THEN <<MaxConnectionsRecommendation(workload)>> ELSE <<>>)

\* Mutant: the error rate reported only when it is above the threshold.
BurstSummaryPoints_ErrorsAboveThreshold(workload) ==
    (IF HighP99(workload)
     THEN <<Line("High P99 latency ({:.1f}ms)", <<Fmt1(workload.p99_latency_ms, Scale)>>)>>
     ELSE <<>>)
    \o (IF HasErrors(workload) /\ HighErrorRate(workload)
        THEN <<Line("Error rate: {:.2f}%",
                    <<Fmt2(ErrorRate(workload).num, ErrorRate(workload).den)>>)>>
        ELSE <<>>)
    \o (IF workload.tps > 0
        THEN <<Line("Throughput: {:.0f} TPS", <<Fmt0(workload.tps, Scale)>>)>>
        ELSE <<>>)

BurstSummaryPoints(workload) ==
    (IF HighP99(workload)
     THEN <<Line("High P99 latency ({:.1f}ms)", <<Fmt1(workload.p99_latency_ms, Scale)>>)>>
     ELSE <<>>)
    \o (IF HasErrors(workload)
        THEN <<Line("Error rate: {:.2f}%",
                    <<Fmt2(ErrorRate(workload).num, ErrorRate(workload).den)>>)>>
        ELSE <<>>)
    \o (IF workload.tps > 0
        THEN <<Line("Throughput: {:.0f} TPS", <<Fmt0(workload.tps, Scale)>>)>>
        ELSE <<>>)

\* "; ".join(summary_points) if summary_points else "Analysis complete"
BurstSummary(workload) ==
    IF BurstSummaryPoints(workload) /= <<>>
    THEN [text |-> "", joined |-> BurstSummaryPoints(workload)]
    ELSE [text |-> "Analysis complete", joined |-> <<>>]

BurstReportAnalysis(report_path, workload) ==
    [status |-> "success", report_path |-> report_path, workload |-> workload,
     recommendations |-> BurstRecommendations(workload),
     summary |-> BurstSummary(workload)]

analyze_burst_report_impl(files, report_path) ==
    LET path == files[report_path]
        l == JsonLoad(path)
        p == parse_workload_report(l.data)
    IN  IF ~Exists(path) THEN Raise("ToolError", "Report file not found")
        ELSE IF ~l.ok THEN LoadFailure(l)
        ELSE IF ~p.ok THEN Raise("ValidationError", "")
        ELSE Return(BurstReportAnalysis(report_path, p.workload))

\* -------------------------------------------- analyze_simulation_report
\* The value of the optional argument timeline_path when it is not given.
NoPath == "None"

\* Mutant: the header line counted as a point.
TimelinePoints_CountsHeader(files, timeline_path) ==
    IF timeline_path /= NoPath /\ Exists(files[timeline_path])
    THEN files[timeline_path].lines
    ELSE 0

\* Lines 235-239: the data rows of the timeline file.  `if timeline_path`,
\* `if timeline.exists()`, then sum(1 for _ in f) - 1.
TimelinePoints(files, timeline_path) ==
    IF timeline_path /= NoPath /\ Exists(files[timeline_path])
    THEN files[timeline_path].lines - 1
    ELSE 0

\* Reading the lines of a file that is not decodable text raises.
TimelineReadFails(files, timeline_path) ==
    /\ timeline_path /= NoPath
    /\ Exists(files[timeline_path])
    /\ files[timeline_path].content = "undecodable"

\* [p.get("p99_latency_ms", 0) for p in timeline_data if "p99_latency_ms" in p]
RECURSIVE Latencies(_)
Latencies(items) ==
    IF items = <<>> THEN <<>>
    ELSE (IF Head(items).t = "absent" THEN <<>> ELSE <<Head(items)>>)
         \o Latencies(Tail(items))

RECURSIVE SumSeq(_)
SumSeq(xs) == IF xs = <<>> THEN 0 ELSE Head(xs).v + SumSeq(Tail(xs))

RECURSIVE MaxSeq(_)
MaxSeq(xs) ==
    IF Len(xs) = 1 THEN Head(xs).v ELSE Max(Head(xs).v, MaxSeq(Tail(xs)))

\* Mutant: a sample without the field counted as 0 instead of skipped.
SpikeLatencies_DefaultsMissing(data) ==
    IF data.timeline.t = "list" /\ Len(data.timeline.items) > 0
    THEN [i \in 1..Len(data.timeline.items) |->
            IF data.timeline.items[i].t = "absent" THEN Num(0)
            ELSE data.timeline.items[i]]
    ELSE <<>>

\* `"timeline" in data`, isinstance(timeline_data, list), len(...) > 0 and
\* `if latencies`: the list the spike check runs on, <<>> when it does not run.
SpikeLatencies(data) ==
    IF data.timeline.t = "list" /\ Len(data.timeline.items) > 0
    THEN Latencies(data.timeline.items)
    ELSE <<>>

\* max() and sum() of a list holding None raise TypeError.
SpikeCheckFails(data) ==
    \E i \in 1..Len(SpikeLatencies(data)) : SpikeLatencies(data)[i].t /= "num"

\* avg_latency = sum(latencies) / len(latencies)
AvgLatency(latencies) == Rat(SumSeq(latencies), Len(latencies))

\* Mutant: a spike is twice the mean.
LatencySpike_Factor2(latencies) ==
    /\ latencies /= <<>>
    /\ MaxSeq(latencies) * AvgLatency(latencies).den > AvgLatency(latencies).num * 2

\* if max_latency > avg_latency * 3
LatencySpike(latencies) ==
    /\ latencies /= <<>>
    /\ MaxSeq(latencies) * AvgLatency(latencies).den
          > AvgLatency(latencies).num * SPIKE_FACTOR

CheckpointRecommendation(latencies) ==
    Recommendation("wal", "checkpoint_completion_target", "0.5", "0.9", "medium", FALSE,
        <<Line("Latency spikes detected: max {:.1f}ms vs avg {:.1f}ms",
               <<Fmt1(MaxSeq(latencies), Scale),
                 Fmt1(AvgLatency(latencies).num, AvgLatency(latencies).den * Scale)>>)>>,
        "Spreads checkpoint I/O over longer period",
        "Slightly longer recovery time after crash")

SimulationRecommendations(data) ==
    IF LatencySpike(SpikeLatencies(data))
    THEN <<CheckpointRecommendation(SpikeLatencies(data))>>
    ELSE <<>>

\* Mutant: the timeline line written for a count of 0 too.
SimulationSummaryPoints_ZeroPoints(workload, timeline_points) ==
    <<Line("Simulated duration: {:.0f}s", <<Fmt0(workload.duration_seconds, Scale)>>)>>
    \o (IF timeline_points >= 0
        THEN <<Line("Timeline points: {}", <<timeline_points>>)>>
        ELSE <<>>)
    \o <<Line("Avg TPS: {:.0f}", <<Fmt0(workload.tps, Scale)>>)>>

SimulationSummaryPoints(workload, timeline_points) ==
    <<Line("Simulated duration: {:.0f}s", <<Fmt0(workload.duration_seconds, Scale)>>)>>
    \o (IF timeline_points > 0
        THEN <<Line("Timeline points: {}", <<timeline_points>>)>>
        ELSE <<>>)
    \o <<Line("Avg TPS: {:.0f}", <<Fmt0(workload.tps, Scale)>>)>>

SimulationReportAnalysis(report_path, timeline_path, workload, timeline_points, data) ==
    [status |-> "success", report_path |-> report_path,
     timeline_path |-> timeline_path, workload |-> workload,
     timeline_points |-> timeline_points,
     recommendations |-> SimulationRecommendations(data),
     summary |-> [text |-> "",
                  joined |-> SimulationSummaryPoints(workload, timeline_points)]]

analyze_simulation_report(files, report_path, timeline_path) ==
    LET path == files[report_path]
        l == JsonLoad(path)
        p == parse_workload_report(l.data)
    IN  IF ~Exists(path) THEN Raise("ToolError", "Report file not found")
        ELSE IF ~l.ok THEN LoadFailure(l)
        ELSE IF ~p.ok THEN Raise("ValidationError", "")
        ELSE IF TimelineReadFails(files, timeline_path) THEN Raise("UnicodeDecodeError", "")
        ELSE IF SpikeCheckFails(l.data) THEN Raise("TypeError", "")
        ELSE Return(SimulationReportAnalysis(report_path, timeline_path, p.workload,
                        TimelinePoints(files, timeline_path), l.data))

\* ------------------------------------------------- compare_reports_impl
\* Mutant: the magnitude of the change, without its sign.
ChangePct_Magnitude(baseline, comparison) ==
    IF baseline > 0
    THEN Rat(Abs(comparison - baseline) * 100, baseline)
    ELSE Rat(0, 1)

\* Mutant: the ratio is not scaled to a percentage.
ChangePct_NoPercent(baseline, comparison) ==
    IF baseline > 0
    THEN Rat(comparison - baseline, baseline)
    ELSE Rat(0, 1)

\* Lines 308-316: 0.0 unless the baseline value is positive, else
\* (comparison - baseline) / baseline * 100.
ChangePct(baseline, comparison) ==
    IF baseline > 0
    THEN Rat((comparison - baseline) * 100, baseline)
    ELSE Rat(0, 1)

TpsChange(b, c) == ChangePct(b.tps, c.tps)
LatencyChange(b, c) == ChangePct(b.avg_latency_ms, c.avg_latency_ms)

\* Mutant: a TPS gain of exactly 5% counted as an improvement.
TpsImproved_Inclusive(b, c) ==
    /\ ~RatLt(TpsChange(b, c), -TPS_CHANGE_PCT)
    /\ TpsChange(b, c).num >= TPS_CHANGE_PCT * TpsChange(b, c).den

\* if tps_change < -5 / elif tps_change > 5
TpsRegressed(b, c) == RatLt(TpsChange(b, c), -TPS_CHANGE_PCT)
TpsImproved(b, c) == ~TpsRegressed(b, c) /\ RatGt(TpsChange(b, c), TPS_CHANGE_PCT)

\* if latency_change > 10 / elif latency_change < -10
LatencyRegressed(b, c) == RatGt(LatencyChange(b, c), LATENCY_CHANGE_PCT)
LatencyImproved(b, c) ==
    ~LatencyRegressed(b, c) /\ RatLt(LatencyChange(b, c), -LATENCY_CHANGE_PCT)

\* Mutant: the factor 1.5 applied to the comparison instead of the baseline.
ErrorsRegressed_FactorSwapped(b, c) ==
    /\ 3 * c.errors > 2 * b.errors
    /\ c.errors > ERRORS_FLOOR

\* Mutant: the floor of 10 errors left out.
ErrorsRegressed_NoFloor(b, c) == 2 * c.errors > 3 * b.errors

\* if comparison_errors > baseline_errors * 1.5 and comparison_errors > 10
ErrorsRegressed(b, c) ==
    /\ 2 * c.errors > 3 * b.errors
    /\ c.errors > ERRORS_FLOOR

\* elif comparison_errors < baseline_errors * 0.5 and baseline_errors > 10
ErrorsImproved(b, c) ==
    /\ ~ErrorsRegressed(b, c)
    /\ 2 * c.errors < b.errors
    /\ b.errors > ERRORS_FLOOR

Regressions(b, c) ==
    (IF TpsRegressed(b, c)
     THEN <<Line("TPS decreased by {:.1f}%",
                 <<Fmt1(Abs(TpsChange(b, c).num), TpsChange(b, c).den)>>)>>
     ELSE <<>>)
    \o (IF LatencyRegressed(b, c)
        THEN <<Line("Latency increased by {:.1f}%",
                    <<Fmt1(LatencyChange(b, c).num, LatencyChange(b, c).den)>>)>>
        ELSE <<>>)
    \o (IF ErrorsRegressed(b, c)
        THEN <<Line("Errors increased from {} to {}", <<b.errors, c.errors>>)>>
        ELSE <<>>)

Improvements(b, c) ==
    (IF TpsImproved(b, c)
     THEN <<Line("TPS increased by {:.1f}%",
                 <<Fmt1(TpsChange(b, c).num, TpsChange(b, c).den)>>)>>
     ELSE <<>>)
    \o (IF LatencyImproved(b, c)
        THEN <<Line("Latency decreased by {:.1f}%",
                    <<Fmt1(Abs(LatencyChange(b, c).num), LatencyChange(b, c).den)>>)>>
        ELSE <<>>)
    \o (IF ErrorsImproved(b, c)
        THEN <<Line("Errors decreased from {} to {}", <<b.errors, c.errors>>)>>
        ELSE <<>>)

\* Mutant: regressions reported whenever there are any.
CompareSummary_RegressionsFirst(regressions, improvements) ==
    IF regressions /= <<>>
    THEN [text |-> "Performance regression detected: ", joined |-> regressions]
    ELSE IF improvements /= <<>>
    THEN [text |-> "Performance improved: ", joined |-> improvements]
    ELSE [text |-> "No significant performance changes detected", joined |-> <<>>]

\* Lines 342-349.
CompareSummary(regressions, improvements) ==
    IF regressions /= <<>> /\ improvements = <<>>
    THEN [text |-> "Performance regression detected: ", joined |-> regressions]
    ELSE IF improvements /= <<>> /\ regressions = <<>>
    THEN [text |-> "Performance improved: ", joined |-> improvements]
    ELSE IF regressions /= <<>> /\ improvements /= <<>>
    THEN [text |-> "Mixed results with both improvements and regressions", joined |-> <<>>]
    ELSE [text |-> "No significant performance changes detected", joined |-> <<>>]

ReportComparison(baseline_path, comparison_path, b, c) ==
    [status |-> "success", baseline_path |-> baseline_path,
     comparison_path |-> comparison_path,
     tps_change_pct |-> TpsChange(b, c),
     latency_change_pct |-> LatencyChange(b, c),
     regressions |-> Regressions(b, c),
     improvements |-> Improvements(b, c),
     summary |-> CompareSummary(Regressions(b, c), Improvements(b, c))]

\* Mutant: the comparison file is not checked; a missing or unreadable one is
\* compared as an empty report.
compare_reports_impl_UncheckedComparison(files, baseline_path, comparison_path) ==
    LET baseline == files[baseline_path]
        lb == JsonLoad(baseline)
        lc == JsonLoad(files[comparison_path])
        pb == parse_workload_report(lb.data)
        pc == parse_workload_report(lc.data)
    IN  IF ~Exists(baseline) THEN Raise("ToolError", "Baseline report not found")
        ELSE IF ~lb.ok THEN LoadFailure(lb)
        ELSE IF ~pb.ok \/ ~pc.ok THEN Raise("ValidationError", "")
        ELSE Return(ReportComparison(baseline_path, comparison_path,
                                     pb.workload, pc.workload))

\* Lines 296-302: both loads sit in one try statement, the baseline first.
compare_reports_impl(files, baseline_path, comparison_path) ==
    LET baseline == files[baseline_path]
        comparison == files[comparison_path]
        lb == JsonLoad(baseline)
        lc == JsonLoad(comparison)
        pb == parse_workload_report(lb.data)
        pc == parse_workload_report(lc.data)
    IN  IF ~Exists(baseline) THEN Raise("ToolError", "Baseline report not found")
        ELSE IF ~Exists(comparison) THEN Raise("ToolError", "Comparison report not found")
        ELSE IF ~lb.ok THEN LoadFailure(lb)
        ELSE IF ~lc.ok THEN LoadFailure(lc)
        ELSE IF ~pb.ok \/ ~pc.ok THEN Raise("ValidationError", "")
        ELSE Return(ReportComparison(baseline_path, comparison_path,
                                     pb.workload, pc.workload))

\* ------------------------------------------------- the files of a run
ReportPaths == {"report_a", "report_b"}
TimelinePath == "timeline"
Paths == ReportPaths \cup {TimelinePath}

FileSystem(a, b, t) ==
    [p \in Paths |-> IF p = "report_a" THEN a ELSE IF p = "report_b" THEN b ELSE t]

FieldMap(dur, tt, tps, avg, p50, p95, p99, err) ==
    [f \in Fields |->
        CASE f = "actual_duration_seconds" -> dur
          [] f = "total_transactions" -> tt
          [] f = "tps" -> tps
          [] f = "avg_latency_ms" -> avg
          [] f = "p50_latency_ms" -> p50
          [] f = "p95_latency_ms" -> p95
          [] f = "p99_latency_ms" -> p99
          [] OTHER -> err]

\* The two shapes of a report: fields under "summary", or at the top level.
NestedDoc(mode, fm, tl) == Doc(mode, TRUE, fm, NoFields, tl)
FlatDoc(mode, fm, tl) == Doc(mode, FALSE, NoFields, fm, tl)

\* The report of the repository's tests (tps 166.67, p99 12.0, no errors).
TestFields ==
    FieldMap(Num(60 * Scale), Num(10000), Num(166 * Scale + 67), Num(5 * Scale),
             Num(4 * Scale), Num(8 * Scale), Num(12 * Scale), Num(0))
TestDoc == NestedDoc(Str("burst"), TestFields, NoTimeline)

\* Burst reports around the two thresholds of analyze_burst_report_impl.
BurstP99 ==
    {Absent, Num(12 * Scale), Num(P99_THRESHOLD_MS * Scale),
     Num(P99_THRESHOLD_MS * Scale + 1), Num(150 * Scale)}
BurstErrors == {Absent, Num(0), Num(1), Num(2)}
BurstTransactions == {Absent, Num(0), Num(99), Num(100), Num(10000)}
BurstTps == {Num(0), Num(166 * Scale + 67)}

BurstFields ==
    {FieldMap(Num(60 * Scale), tt, tps, Num(5 * Scale), Num(4 * Scale),
              Num(8 * Scale), p99, err) :
        tt \in BurstTransactions, tps \in BurstTps, p99 \in BurstP99,
        err \in BurstErrors}

BurstReports ==
    {NestedDoc(mode, fm, NoTimeline) : mode \in {StrAbsent, Str("burst")}, fm \in BurstFields}
    \cup {FlatDoc(Str("burst"), fm, NoTimeline) : fm \in BurstFields}

\* Embedded timelines: every list of at most MaxSamples samples over
\* SampleVals, the list of the documented scenario, and lists with a null.
SampleVals == {Absent, Num(0), Num(50 * Scale), Num(300 * Scale)}

RECURSIVE SeqsUpTo(_, _)
SeqsUpTo(S, n) ==
    IF n = 0 THEN {<<>>}
    ELSE SeqsUpTo(S, n - 1)
         \cup {Append(q, x) : q \in {r \in SeqsUpTo(S, n - 1) : Len(r) = n - 1}, x \in S}

ScenarioSamples == <<Num(50 * Scale), Num(52 * Scale), Num(48 * Scale), Num(300 * Scale)>>

Timelines ==
    {NoTimeline, NotListTimeline}
    \cup {Timeline(q) : q \in SeqsUpTo(SampleVals, MaxSamples)}
    \cup {Timeline(ScenarioSamples), Timeline(<<Null>>),
          Timeline(<<Num(50 * Scale), Null>>)}

SimulationReports ==
    {NestedDoc(Str("simulation"), TestFields, tl) : tl \in Timelines}

TimelineFiles ==
    {MissingFile, UndecodableFile} \cup {CsvFile(n) : n \in 0..MaxLines}

\* Reports around the thresholds of compare_reports_impl.
CompareFields(tps, avg, err) ==
    FieldMap(Num(60 * Scale), Num(10000), tps, avg, Num(4 * Scale), Num(8 * Scale),
             Num(12 * Scale), err)

CompareTps ==
    {Absent, Num(0), Num(94 * Scale), Num(95 * Scale), Num(100 * Scale),
     Num(105 * Scale), Num(106 * Scale), Num(166 * Scale + 67), Num(200 * Scale)}
CompareLatency ==
    {Absent, Num(0), Num(89 * Scale), Num(90 * Scale), Num(100 * Scale),
     Num(110 * Scale), Num(111 * Scale)}
CompareErrors ==
    {Num(0), Num(4), Num(5), Num(6), Num(10), Num(11), Num(15), Num(16), Num(22)}

CompareReports ==
    {NestedDoc(StrAbsent, CompareFields(tps, Num(100 * Scale), Num(0)), NoTimeline) :
        tps \in CompareTps}
    \cup {NestedDoc(StrAbsent, CompareFields(Num(100 * Scale), avg, Num(0)), NoTimeline) :
        avg \in CompareLatency}
    \cup {NestedDoc(StrAbsent, CompareFields(Num(100 * Scale), Num(100 * Scale), err), NoTimeline) :
        err \in CompareErrors}
    \cup {NestedDoc(StrAbsent, CompareFields(tps, avg, err), NoTimeline) :
        tps \in {Num(94 * Scale), Num(106 * Scale)},
        avg \in {Num(89 * Scale), Num(111 * Scale)},
        err \in {Num(0), Num(22)}}

\* A report with a null numeric field, which WorkloadResult rejects.
NullDoc ==
    NestedDoc(Str("burst"),
              FieldMap(Num(60 * Scale), Num(10000), Null, Num(5 * Scale), Num(4 * Scale),
                       Num(8 * Scale), Num(12 * Scale), Num(0)),
              NoTimeline)

\* Reports with one numeric field null, in both shapes.
NullFields == {[TestFields EXCEPT ![f] = Null] : f \in Fields}

\* Reports for the normalizer: every subset of the numeric fields absent, in
\* the nested shape (with other numbers at the top level and another "mode"
\* inside "summary") and in the flat shape.
PartialFields ==
    {[f \in Fields |-> IF f \in missing THEN Absent ELSE TestFields[f]] :
        missing \in SUBSET Fields}

ShadowFields ==
    FieldMap(Num(1 * Scale), Num(1), Num(2 * Scale), Num(3 * Scale), Num(4 * Scale),
             Num(5 * Scale), Num(500 * Scale), Num(7))

Modes == {StrAbsent, Str("burst"), Str("simulation")}

OtherMode(mode) == IF mode = Str("simulation") THEN Str("burst") ELSE Str("simulation")

ShadowedNestedDoc(mode, fm) ==
    WithSummaryMode(Doc(mode, TRUE, fm, ShadowFields, NoTimeline), OtherMode(mode))

\* Simulation reports whose metrics cross the burst thresholds, or are zero.
SimulationFields ==
    {TestFields,
     [TestFields EXCEPT !["p99_latency_ms"] = Num(150 * Scale)],
     [TestFields EXCEPT !["errors"] = Num(2), !["total_transactions"] = Num(100)],
     [TestFields EXCEPT !["p99_latency_ms"] = Num(150 * Scale), !["errors"] = Num(2),
                        !["total_transactions"] = Num(0)],
     [TestFields EXCEPT !["actual_duration_seconds"] = Num(0), !["tps"] = Num(0)],
     [TestFields EXCEPT !["actual_duration_seconds"] = Absent, !["tps"] = Absent]}

SpikeSamples == <<Num(300 * Scale), Num(0), Num(0), Num(0)>>

RuleTimelines ==
    {NoTimeline, Timeline(<<>>), Timeline(<<Absent, Absent>>), Timeline(SpikeSamples)}

RuleReports ==
    {NestedDoc(mode, fm, tl) :
        mode \in {Str("burst"), Str("simulation")}, fm \in SimulationFields,
        tl \in RuleTimelines}

FaultyFiles ==
    {MissingFile, UndecodableFile, GarbageFile, JsonFile(TestDoc), JsonFile(NullDoc)}

FileSystems ==
    {FileSystem(JsonFile(d), MissingFile, MissingFile) : d \in BurstReports}
    \cup {FileSystem(JsonFile(d), MissingFile, t) : d \in SimulationReports, t \in TimelineFiles}
    \cup {FileSystem(JsonFile(b), JsonFile(c), MissingFile) : b \in CompareReports, c \in CompareReports}
    \cup {FileSystem(a, b, t) : a \in FaultyFiles, b \in FaultyFiles, t \in {MissingFile, CsvFile(2)}}
    \cup {FileSystem(JsonFile(ShadowedNestedDoc(mode, fm)),
                     JsonFile(FlatDoc(mode, fm, NoTimeline)), MissingFile) :
             mode \in Modes, fm \in PartialFields \cup NullFields}
    \cup {FileSystem(JsonFile(d), MissingFile, t) : d \in RuleReports, t \in TimelineFiles}

\* ------------------------------------------------------- specification
\* The tools keep no state of their own: a state is the filesystem, the last
\* call made, its arguments and its outcome.  Here a call runs from its first
\* line to its return with no other call in flight (calls and heap stay
\* empty); ConcurrentSpec below runs the calls line by line, interleaved.
Init ==
    /\ fs \in FileSystems
    /\ op = "none"
    /\ args = <<>>
    /\ result = Raise("none", "")
    /\ calls = <<>>
    /\ heap = <<>>

AnalyzeBurst(report_path) ==
    /\ op' = "analyze_burst_report"
    /\ args' = <<report_path>>
    /\ result' = analyze_burst_report_impl(fs, report_path)
    /\ UNCHANGED <<fs, calls, heap>>

AnalyzeSimulation(report_path, timeline_path) ==
    /\ op' = "analyze_simulation_report"
    /\ args' = <<report_path, timeline_path>>
    /\ result' = analyze_simulation_report(fs, report_path, timeline_path)
    /\ UNCHANGED <<fs, calls, heap>>

Compare(baseline_path, comparison_path) ==
    /\ op' = "compare_reports"
    /\ args' = <<baseline_path, comparison_path>>
    /\ result' = compare_reports_impl(fs, baseline_path, comparison_path)
    /\ UNCHANGED <<fs, calls, heap>>

Next ==
    \/ \E p \in ReportPaths : AnalyzeBurst(p)
    \/ \E p \in ReportPaths, t \in {NoPath, TimelinePath} : AnalyzeSimulation(p, t)
    \/ \E b \in ReportPaths, c \in ReportPaths : Compare(b, c)

Spec == Init /\ [][Next]_vars

\* ------------------------------------------------ concurrent invocations
\* The tools are coroutines called by the server for every request; the
\* invocations in flight are the members of Calls.  An invocation holds its
\* locals in its frame (calls[c]) and the list objects it builds in the heap.
Calls == 1..MaxCalls

\* The frame of an invocation that has not been made yet.
IdleFrame ==
    [pc |-> "idle", tool |-> "none", args |-> <<>>, data |-> <<>>,
     workloads |-> <<>>, timeline_points |-> 0, outcome |-> Raise("none", "")]

\* recommendations = [] ; summary_points = [] ; regressions = [] ;
\* improvements = []
NoLists ==
    [recommendations |-> <<>>, summary_points |-> <<>>,
     regressions |-> <<>>, improvements |-> <<>>]

\* Mutant: the lists are module-level objects shared by every invocation.
ListOwner_Shared(c) == 1

\* The lists are created inside the function body, so each invocation
\* appends to, and returns, list objects of its own.
ListOwner(c) == c

\* x appended to the list `name` of invocation c when cond holds.
AppendIf(lists, cond, name, x) ==
    IF cond THEN [lists EXCEPT ![name] = Append(@, x)] ELSE lists

\* The frame of invocation c once the server has called tool with arguments a.
Invoked(c, tool, a) == [calls[c] EXCEPT !.tool = tool, !.args = a]

\* The invocation c moves to pc with its frame changed to frame.
Goto(c, frame, pc) == calls' = [calls EXCEPT ![c] = [frame EXCEPT !.pc = pc]]

\* The invocation c, with its frame changed to frame, ends with outcome.
Finish(c, frame, outcome) ==
    calls' = [calls EXCEPT ![c] = [frame EXCEPT !.pc = "done", !.outcome = outcome]]

\* Lines 129-146: the tool is called, the report is read and normalized, the
\* lists are created.
BurstLoad(c, report_path) ==
    /\ calls[c].pc = "idle"
    /\ LET frame == Invoked(c, "analyze_burst_report", <<report_path>>)
           path == fs[report_path]
           l == JsonLoad(path)
           p == parse_workload_report(l.data)
       IN  IF ~Exists(path)
           THEN Finish(c, frame, Raise("ToolError", "Report file not found")) /\ UNCHANGED heap
           ELSE IF ~l.ok THEN Finish(c, frame, LoadFailure(l)) /\ UNCHANGED heap
           ELSE IF ~p.ok THEN Finish(c, frame, Raise("ValidationError", "")) /\ UNCHANGED heap
           ELSE /\ Goto(c, [frame EXCEPT !.data = <<l.data>>,
                                            !.workloads = <<p.workload>>], "p99")
                /\ heap' = [heap EXCEPT ![ListOwner(c)] = NoLists]
    /\ UNCHANGED <<fs, op, args, result>>

\* Lines 148-160: the tail-latency check.
BurstP99Check(c) ==
    /\ calls[c].pc = "p99"
    /\ LET workload == calls[c].workloads[1]
           o == ListOwner(c)
       IN  heap' = [heap EXCEPT ![o] =
                AppendIf(AppendIf(@, HighP99(workload), "recommendations",
                                  WorkMemRecommendation(workload)),
                         HighP99(workload), "summary_points",
                         Line("High P99 latency ({:.1f}ms)",
                              <<Fmt1(workload.p99_latency_ms, Scale)>>))]
    /\ Goto(c, calls[c], "errors")
    /\ UNCHANGED <<fs, op, args, result>>

\* Lines 162-177: the error-rate check.
BurstErrorCheck(c) ==
    /\ calls[c].pc = "errors"
    /\ calls[c].tool = "analyze_burst_report"
    /\ LET workload == calls[c].workloads[1]
           o == ListOwner(c)
       IN  heap' = [heap EXCEPT ![o] =
                AppendIf(AppendIf(@, HasErrors(workload), "summary_points",
                                  Line("Error rate: {:.2f}%",
                                       <<Fmt2(ErrorRate(workload).num,
                                              ErrorRate(workload).den)>>)),
                         HasErrors(workload) /\ HighErrorRate(workload),
                         "recommendations", MaxConnectionsRecommendation(workload))]
    /\ Goto(c, calls[c], "finish")
    /\ UNCHANGED <<fs, op, args, result>>

\* Lines 179-189: the throughput line, then the result built from the lists.
BurstFinish(c) ==
    /\ calls[c].pc = "finish"
    /\ calls[c].tool = "analyze_burst_report"
    /\ LET workload == calls[c].workloads[1]
           o == ListOwner(c)
           lists == AppendIf(heap[o], workload.tps > 0, "summary_points",
                             Line("Throughput: {:.0f} TPS", <<Fmt0(workload.tps, Scale)>>))
       IN  /\ heap' = [heap EXCEPT ![o] = lists]
           /\ Finish(c, calls[c], Return(
                [status |-> "success", report_path |-> calls[c].args[1],
                 workload |-> workload,
                 recommendations |-> lists.recommendations,
                 summary |-> IF lists.summary_points /= <<>>
                             THEN [text |-> "", joined |-> lists.summary_points]
                             ELSE [text |-> "Analysis complete", joined |-> <<>>]]))
    /\ UNCHANGED <<fs, op, args, result>>

\* Lines 206-231: the tool is called, the report is read and normalized, the
\* lists are created.
SimulationLoad(c, report_path, timeline_path) ==
    /\ calls[c].pc = "idle"
    /\ LET frame == Invoked(c, "analyze_simulation_report", <<report_path, timeline_path>>)
           path == fs[report_path]
           l == JsonLoad(path)
           p == parse_workload_report(l.data)
       IN  IF ~Exists(path)
           THEN Finish(c, frame, Raise("ToolError", "Report file not found")) /\ UNCHANGED heap
           ELSE IF ~l.ok THEN Finish(c, frame, LoadFailure(l)) /\ UNCHANGED heap
           ELSE IF ~p.ok THEN Finish(c, frame, Raise("ValidationError", "")) /\ UNCHANGED heap
           ELSE /\ Goto(c, [frame EXCEPT !.data = <<l.data>>,
                                            !.workloads = <<p.workload>>], "points")
                /\ heap' = [heap EXCEPT ![ListOwner(c)] = NoLists]
    /\ UNCHANGED <<fs, op, args, result>>

\* Lines 233-239: the rows of the timeline file are counted.
SimulationCountPoints(c) ==
    /\ calls[c].pc = "points"
    /\ IF TimelineReadFails(fs, calls[c].args[2])
       THEN Finish(c, calls[c], Raise("UnicodeDecodeError", ""))
       ELSE Goto(c, [calls[c] EXCEPT !.timeline_points =
                                         TimelinePoints(fs, calls[c].args[2])], "spike")
    /\ UNCHANGED <<fs, op, args, result, heap>>

\* Lines 241-262: the spike check on the embedded timeline.
SimulationSpikeCheck(c) ==
    /\ calls[c].pc = "spike"
    /\ LET data == calls[c].data[1]
           o == ListOwner(c)
       IN  IF SpikeCheckFails(data)
           THEN Finish(c, calls[c], Raise("TypeError", "")) /\ UNCHANGED heap
           ELSE /\ heap' = [heap EXCEPT ![o] =
                        AppendIf(@, LatencySpike(SpikeLatencies(data)), "recommendations",
                                 CheckpointRecommendation(SpikeLatencies(data)))]
                /\ Goto(c, calls[c], "finish")
    /\ UNCHANGED <<fs, op, args, result>>

\* Lines 264-277: the summary lines, then the result built from the lists.
SimulationFinish(c) ==
    /\ calls[c].pc = "finish"
    /\ calls[c].tool = "analyze_simulation_report"
    /\ LET workload == calls[c].workloads[1]
           o == ListOwner(c)
           lists == [heap[o] EXCEPT !.summary_points =
                        @ \o SimulationSummaryPoints(workload, calls[c].timeline_points)]
       IN  /\ heap' = [heap EXCEPT ![o] = lists]
           /\ Finish(c, calls[c], Return(
                [status |-> "success", report_path |-> calls[c].args[1],
                 timeline_path |-> calls[c].args[2], workload |-> workload,
                 timeline_points |-> calls[c].timeline_points,
                 recommendations |-> lists.recommendations,
                 summary |-> [text |-> "", joined |-> lists.summary_points]]))
    /\ UNCHANGED <<fs, op, args, result>>

\* Lines 280-319: the tool is called, both reports are read and normalized,
\* the lists are created.
CompareLoad(c, baseline_path, comparison_path) ==
    /\ calls[c].pc = "idle"
    /\ LET frame == Invoked(c, "compare_reports", <<baseline_path, comparison_path>>)
           baseline == fs[baseline_path]
           comparison == fs[comparison_path]
           lb == JsonLoad(baseline)
           lc == JsonLoad(comparison)
           pb == parse_workload_report(lb.data)
           pc == parse_workload_report(lc.data)
       IN  IF ~Exists(baseline)
           THEN Finish(c, frame, Raise("ToolError", "Baseline report not found")) /\ UNCHANGED heap
           ELSE IF ~Exists(comparison)
           THEN Finish(c, frame, Raise("ToolError", "Comparison report not found")) /\ UNCHANGED heap
           ELSE IF ~lb.ok THEN Finish(c, frame, LoadFailure(lb)) /\ UNCHANGED heap
           ELSE IF ~lc.ok THEN Finish(c, frame, LoadFailure(lc)) /\ UNCHANGED heap
           ELSE IF ~pb.ok \/ ~pc.ok
           THEN Finish(c, frame, Raise("ValidationError", "")) /\ UNCHANGED heap
           ELSE /\ Goto(c, [frame EXCEPT !.data = <<lb.data, lc.data>>,
                                            !.workloads = <<pb.workload, pc.workload>>],
                        "tps")
                /\ heap' = [heap EXCEPT ![ListOwner(c)] = NoLists]
    /\ UNCHANGED <<fs, op, args, result>>

\* Lines 321-325: the TPS change is classified.
CompareTpsCheck(c) ==
    /\ calls[c].pc = "tps"
    /\ LET b == calls[c].workloads[1]
           w == calls[c].workloads[2]
           o == ListOwner(c)
       IN  heap' = [heap EXCEPT ![o] =
                AppendIf(AppendIf(@, TpsRegressed(b, w), "regressions",
                                  Line("TPS decreased by {:.1f}%",
                                       <<Fmt1(Abs(TpsChange(b, w).num),
                                              TpsChange(b, w).den)>>)),
                         TpsImproved(b, w), "improvements",
                         Line("TPS increased by {:.1f}%",
                              <<Fmt1(TpsChange(b, w).num, TpsChange(b, w).den)>>))]
    /\ Goto(c, calls[c], "latency")
    /\ UNCHANGED <<fs, op, args, result>>

\* Lines 327-331: the latency change is classified.
CompareLatencyCheck(c) ==
    /\ calls[c].pc = "latency"
    /\ LET b == calls[c].workloads[1]
           w == calls[c].workloads[2]
           o == ListOwner(c)
       IN  heap' = [heap EXCEPT ![o] =
                AppendIf(AppendIf(@, LatencyRegressed(b, w), "regressions",
                                  Line("Latency increased by {:.1f}%",
                                       <<Fmt1(LatencyChange(b, w).num,
                                              LatencyChange(b, w).den)>>)),
                         LatencyImproved(b, w), "improvements",
                         Line("Latency decreased by {:.1f}%",
                              <<Fmt1(Abs(LatencyChange(b, w).num),
                                     LatencyChange(b, w).den)>>))]
    /\ Goto(c, calls[c], "errors")
    /\ UNCHANGED <<fs, op, args, result>>

\* Lines 333-339: the error counts are classified.
CompareErrorsCheck(c) ==
    /\ calls[c].pc = "errors"
    /\ calls[c].tool = "compare_reports"
    /\ LET b == calls[c].workloads[1]
           w == calls[c].workloads[2]
           o == ListOwner(c)
       IN  heap' = [heap EXCEPT ![o] =
                AppendIf(AppendIf(@, ErrorsRegressed(b, w), "regressions",
                                  Line("Errors increased from {} to {}",
                                       <<b.errors, w.errors>>)),
                         ErrorsImproved(b, w), "improvements",
                         Line("Errors decreased from {} to {}", <<b.errors, w.errors>>))]
    /\ Goto(c, calls[c], "finish")
    /\ UNCHANGED <<fs, op, args, result>>

\* Lines 341-360: the summary, then the result built from the lists.
CompareFinish(c) ==
    /\ calls[c].pc = "finish"
    /\ calls[c].tool = "compare_reports"
    /\ LET b == calls[c].workloads[1]
           w == calls[c].workloads[2]
           lists == heap[ListOwner(c)]
       IN  Finish(c, calls[c], Return(
                [status |-> "success", baseline_path |-> calls[c].args[1],
                 comparison_path |-> calls[c].args[2],
                 tps_change_pct |-> TpsChange(b, w),
                 latency_change_pct |-> LatencyChange(b, w),
                 regressions |-> lists.regressions,
                 improvements |-> lists.improvements,
                 summary |-> CompareSummary(lists.regressions, lists.improvements)]))
    /\ UNCHANGED <<fs, op, args, result, heap>>

\* Reports for concurrent invocations: one on which every analysis rule
\* fires, the report of the tests, one that regresses against it on every
\* metric, and one whose embedded timeline holds a null sample.
HotDoc ==
    NestedDoc(Str("simulation"),
              [TestFields EXCEPT !["p99_latency_ms"] = Num(150 * Scale),
                                 !["errors"] = Num(2), !["total_transactions"] = Num(0)],
              Timeline(SpikeSamples))
SlowDoc ==
    NestedDoc(Str("burst"),
              [TestFields EXCEPT !["tps"] = Num(100 * Scale),
                                 !["avg_latency_ms"] = Num(10 * Scale),
                                 !["errors"] = Num(22)],
              NoTimeline)
NullSampleDoc == NestedDoc(Str("simulation"), TestFields, Timeline(<<Null>>))

ConcurrentFileSystems ==
    {FileSystem(JsonFile(HotDoc), JsonFile(SlowDoc), CsvFile(MaxLines)),
     FileSystem(JsonFile(TestDoc), JsonFile(NullSampleDoc), CsvFile(MaxLines)),
     FileSystem(JsonFile(HotDoc), GarbageFile, UndecodableFile),
     FileSystem(JsonFile(TestDoc), MissingFile, CsvFile(MaxLines))}

ConcurrentInit ==
    /\ fs \in ConcurrentFileSystems
    /\ op = "none"
    /\ args = <<>>
    /\ result = Raise("none", "")
    /\ calls = [c \in Calls |-> IdleFrame]
    /\ heap = [c \in Calls |-> NoLists]

ConcurrentNext ==
    \E c \in Calls :
        \/ \E p \in ReportPaths : BurstLoad(c, p)
        \/ BurstP99Check(c) \/ BurstErrorCheck(c) \/ BurstFinish(c)
        \/ \E p \in ReportPaths, t \in {NoPath, TimelinePath} : SimulationLoad(c, p, t)
        \/ SimulationCountPoints(c) \/ SimulationSpikeCheck(c) \/ SimulationFinish(c)
        \/ \E b \in ReportPaths, w \in ReportPaths : CompareLoad(c, b, w)
        \/ CompareTpsCheck(c) \/ CompareLatencyCheck(c) \/ CompareErrorsCheck(c)
        \/ CompareFinish(c)

\* Every interleaving of the steps of the invocations.
ConcurrentSpec == ConcurrentInit /\ [][ConcurrentNext]_vars

\* ---------------------------------------------------------------- claims
Returned(name) == op = name /\ result.kind = "return"

\* The number of recommendations of the returned result for `parameter`.
RecCount(parameter) ==
    Cardinality({i \in 1..Len(result.value.recommendations) :
                    result.value.recommendations[i].parameter = parameter})

\* The recommendation of the returned result for `parameter`, when there is one.
RecFor(parameter) ==
    result.value.recommendations[
        CHOOSE i \in 1..Len(result.value.recommendations) :
            result.value.recommendations[i].parameter = parameter]

\* Whether a line with format `fmt` is in the list `lines`.
HasLine(lines, fmt) == \E i \in 1..Len(lines) : lines[i].fmt = fmt

\* C1 (as claimed): analyze_burst_report_impl and analyze_simulation_report
\* fail with the not-found ToolError on a report path that does not exist and
\* with the invalid-JSON ToolError on an existing file whose content is not
\* valid JSON, and return no result in either case.
C1_MissingOrInvalidReportFails ==
    op \in {"analyze_burst_report", "analyze_simulation_report"} =>
        /\ ~fs[args[1]].exists =>
              result = Raise("ToolError", "Report file not found")
        /\ (fs[args[1]].exists /\ fs[args[1]].content /= "json") =>
              result = Raise("ToolError", "Invalid JSON in report file")

\* C2: compare_reports_impl returns a ReportComparison only when both files
\* exist and both hold JSON; in every other combination of the two files'
\* states it raises.
C2_CompareNeedsBothReports ==
    op = "compare_reports" =>
        /\ result.kind = "return" =>
              \A i \in {1, 2} : fs[args[i]].exists /\ fs[args[i]].content = "json"
        /\ (\E i \in {1, 2} : ~fs[args[i]].exists \/ fs[args[i]].content /= "json") =>
              result.kind = "raise"

\* C2 witness: the baseline is a valid report, the comparison file exists
\* but is not JSON, and the comparison has raised.
C2_Witness ==
    /\ op = "compare_reports"
    /\ fs[args[1]] = JsonFile(TestDoc)
    /\ fs[args[2]] = GarbageFile
    /\ result.kind = "raise"

\* C3: a burst analysis holds the work_mem recommendation (performance,
\* medium, no restart) exactly once when the normalized p99_latency_ms is
\* strictly above 100 ms, and not at all otherwise.
C3_WorkMemIffP99Above100 ==
    Returned("analyze_burst_report") =>
        IF result.value.workload.p99_latency_ms > 100 * Scale
        THEN /\ RecCount("work_mem") = 1
             /\ RecFor("work_mem").category = "performance"
             /\ RecFor("work_mem").confidence = "medium"
             /\ RecFor("work_mem").restart_required = FALSE
        ELSE RecCount("work_mem") = 0

\* C3 witness: p99 one resolution step above 100 ms, one work_mem
\* recommendation.
C3_Witness ==
    /\ Returned("analyze_burst_report")
    /\ result.value.workload.p99_latency_ms = 100 * Scale + 1
    /\ RecCount("work_mem") = 1

\* C4: a burst analysis holds the max_connections recommendation
\* (connections, low, restart required) exactly when errors > 0 and
\* errors / max(total_transactions, 1) * 100 > 1.
C4_MaxConnectionsIffErrorRateAbove1 ==
    Returned("analyze_burst_report") =>
        LET w == result.value.workload
            d == IF w.total_transactions > 1 THEN w.total_transactions ELSE 1
        IN  IF w.errors > 0 /\ w.errors * 100 > d
            THEN /\ RecCount("max_connections") = 1
                 /\ RecFor("max_connections").category = "connections"
                 /\ RecFor("max_connections").confidence = "low"
                 /\ RecFor("max_connections").restart_required = TRUE
            ELSE RecCount("max_connections") = 0

\* C4 witness: 1 error in 99 transactions, a rate just above 1%, and the
\* recommendation is there.
C4_Witness ==
    /\ Returned("analyze_burst_report")
    /\ result.value.workload.errors = 1
    /\ result.value.workload.total_transactions = 99
    /\ RecCount("max_connections") = 1

\* The p99_latency_ms values of the samples under "timeline" that have the
\* field, as the claims describe them.
ClaimedSamples(data) ==
    IF data.timeline.t = "list"
    THEN SelectSeq(data.timeline.items, LAMBDA x : x.t /= "absent")
    ELSE <<>>

ClaimedSpike(xs) ==
    /\ Len(xs) > 0
    /\ \E i \in 1..Len(xs) :
          /\ \A j \in 1..Len(xs) : xs[j].v <= xs[i].v
          /\ xs[i].v * Len(xs) > 3 * SumSeq(xs)

\* C5: a simulation analysis holds the checkpoint_completion_target
\* recommendation (wal), once, exactly when the sample list is non-empty and
\* its max exceeds 3 times its mean, whatever timeline_path is given and
\* whatever the timeline file holds.
C5_SpikeIffMaxAbove3Mean ==
    Returned("analyze_simulation_report") =>
        IF ClaimedSpike(ClaimedSamples(fs[args[1]].doc))
        THEN /\ RecCount("checkpoint_completion_target") = 1
             /\ RecFor("checkpoint_completion_target").category = "wal"
        ELSE RecCount("checkpoint_completion_target") = 0

\* C5 witness: a timeline file with data rows is supplied and the spike
\* recommendation is emitted.
C5_Witness ==
    /\ Returned("analyze_simulation_report")
    /\ args[2] = TimelinePath
    /\ result.value.timeline_points > 0
    /\ RecCount("checkpoint_completion_target") = 1

\* C6 (as claimed): for the embedded timeline 50, 52, 48, 300 the result
\* holds exactly one checkpoint_completion_target recommendation.
C6_ScenarioFiresOnce ==
    (Returned("analyze_simulation_report")
     /\ fs[args[1]].doc.timeline = Timeline(ScenarioSamples)) =>
        RecCount("checkpoint_completion_target") = 1

\* C6 (amended): for the embedded timeline 50, 52, 48, 300 the spike rule
\* does not fire, since 300 is not above 3 * 112.5 = 337.5: the result holds
\* no checkpoint_completion_target recommendation.
C6_ScenarioDoesNotFire ==
    (Returned("analyze_simulation_report")
     /\ fs[args[1]].doc.timeline = Timeline(ScenarioSamples)) =>
        RecCount("checkpoint_completion_target") = 0

\* C6 witness: the scenario's report has been analysed and a result returned.
C6_Witness ==
    /\ Returned("analyze_simulation_report")
    /\ fs[args[1]].doc.timeline = Timeline(ScenarioSamples)
    /\ result.value.recommendations = <<>>

\* The normalized baseline and comparison reports of a returned comparison.
BaselineOf == WorkloadResult(fs[args[1]].doc)
ComparisonOf == WorkloadResult(fs[args[2]].doc)

RECURSIVE GCD(_, _)
GCD(a, b) == IF b = 0 THEN a ELSE GCD(b, a % b)

\* a/b = c/d for b, d > 0, cross-multiplied after removing the common factor
\* of the denominators.
SameRatio(a, b, c, d) == a * (d \div GCD(b, d)) = c * (b \div GCD(b, d))

\* pct = (comparison - baseline) / baseline * 100 when baseline > 0, else 0.
ClaimedChange(pct, baseline, comparison) ==
    /\ pct.den > 0
    /\ IF baseline > 0
       THEN SameRatio(pct.num, pct.den, (comparison - baseline) * 100, baseline)
       ELSE pct.num = 0

\* C7: tps_change_pct and latency_change_pct of a returned comparison are
\* (comparison - baseline) / baseline * 100 of tps and of avg_latency_ms when
\* the baseline value is positive and 0 otherwise, with no zero divisor.
C7_ChangePctFormula ==
    Returned("compare_reports") =>
        /\ ClaimedChange(result.value.tps_change_pct, BaselineOf.tps, ComparisonOf.tps)
        /\ ClaimedChange(result.value.latency_change_pct,
                         BaselineOf.avg_latency_ms, ComparisonOf.avg_latency_ms)

\* C7 witness: baseline tps 166.67, comparison tps 200.0, a change between
\* 19.9% and 20.1%.
C7_Witness ==
    /\ Returned("compare_reports")
    /\ BaselineOf.tps = 166 * Scale + 67
    /\ ComparisonOf.tps = 200 * Scale
    /\ result.value.tps_change_pct.num * 10 > 199 * result.value.tps_change_pct.den
    /\ result.value.tps_change_pct.num * 10 < 201 * result.value.tps_change_pct.den

\* The number of lines of both lists whose format is one of `fmts`.
LineCount(fmts) ==
    Cardinality({i \in 1..Len(result.value.regressions) :
                    result.value.regressions[i].fmt \in fmts})
    + Cardinality({i \in 1..Len(result.value.improvements) :
                    result.value.improvements[i].fmt \in fmts})

TpsLines == {"TPS decreased by {:.1f}%", "TPS increased by {:.1f}%"}
LatencyLines == {"Latency increased by {:.1f}%", "Latency decreased by {:.1f}%"}
ErrorLines == {"Errors increased from {} to {}", "Errors decreased from {} to {}"}

\* C8: a returned comparison lists "TPS decreased" among the regressions iff
\* tps_change_pct < -5 and "TPS increased" among the improvements iff
\* tps_change_pct > 5, "Latency increased" among the regressions iff
\* latency_change_pct > 10 and "Latency decreased" among the improvements iff
\* latency_change_pct < -10; each metric adds at most one line, and never to
\* the other list.
C8_TpsAndLatencyClassification ==
    Returned("compare_reports") =>
        LET r == result.value
            tps == r.tps_change_pct
            lat == r.latency_change_pct
        IN  /\ HasLine(r.regressions, "TPS decreased by {:.1f}%")
                  <=> tps.num < -5 * tps.den
            /\ HasLine(r.improvements, "TPS increased by {:.1f}%")
                  <=> tps.num > 5 * tps.den
            /\ HasLine(r.regressions, "Latency increased by {:.1f}%")
                  <=> lat.num > 10 * lat.den
            /\ HasLine(r.improvements, "Latency decreased by {:.1f}%")
                  <=> lat.num < -10 * lat.den
            /\ LineCount(TpsLines) <= 1
            /\ LineCount(LatencyLines) <= 1
            /\ ~HasLine(r.regressions, "TPS increased by {:.1f}%")
            /\ ~HasLine(r.improvements, "TPS decreased by {:.1f}%")
            /\ ~HasLine(r.regressions, "Latency decreased by {:.1f}%")
            /\ ~HasLine(r.improvements, "Latency increased by {:.1f}%")

\* C8 witness: baseline tps 166.67 and comparison tps 200.0; the increase is
\* in improvements and no TPS line is in regressions.
C8_Witness ==
    /\ Returned("compare_reports")
    /\ BaselineOf.tps = 166 * Scale + 67
    /\ ComparisonOf.tps = 200 * Scale
    /\ HasLine(result.value.improvements, "TPS increased by {:.1f}%")
    /\ ~HasLine(result.value.regressions, "TPS increased by {:.1f}%")
    /\ ~HasLine(result.value.regressions, "TPS decreased by {:.1f}%")

\* C9: with B and C the baseline and comparison errors, a returned comparison
\* lists "Errors increased from B to C" among the regressions iff C > B * 1.5
\* and C > 10, and "Errors decreased from B to C" among the improvements iff
\* C < B * 0.5 and B > 10; the two never hold together, so the errors add at
\* most one line.
C9_ErrorsClassification ==
    Returned("compare_reports") =>
        LET r == result.value
            B == BaselineOf.errors
            C == ComparisonOf.errors
            up == Line("Errors increased from {} to {}", <<B, C>>)
            down == Line("Errors decreased from {} to {}", <<B, C>>)
        IN  /\ (\E i \in 1..Len(r.regressions) : r.regressions[i] = up)
                  <=> (2 * C > 3 * B /\ C > 10)
            /\ (\E i \in 1..Len(r.improvements) : r.improvements[i] = down)
                  <=> (2 * C < B /\ B > 10)
            /\ ~((2 * C > 3 * B /\ C > 10) /\ (2 * C < B /\ B > 10))
            /\ LineCount(ErrorLines) <= 1
            /\ ~HasLine(r.regressions, "Errors decreased from {} to {}")
            /\ ~HasLine(r.improvements, "Errors increased from {} to {}")

\* C9 witness: errors fall from 11 to 5 and the decrease is listed.
C9_Witness ==
    /\ Returned("compare_reports")
    /\ BaselineOf.errors = 11
    /\ ComparisonOf.errors = 5
    /\ HasLine(result.value.improvements, "Errors decreased from {} to {}")

\* C10: the summary of a returned comparison is decided by which of the two
\* lists are empty: regressions only, improvements only, both, or neither.
C10_SummaryCases ==
    Returned("compare_reports") =>
        LET r == result.value
        IN  /\ (r.regressions /= <<>> /\ r.improvements = <<>>) =>
                  r.summary = [text |-> "Performance regression detected: ",
                               joined |-> r.regressions]
            /\ (r.regressions = <<>> /\ r.improvements /= <<>>) =>
                  r.summary = [text |-> "Performance improved: ",
                               joined |-> r.improvements]
            /\ (r.regressions /= <<>> /\ r.improvements /= <<>>) =>
                  r.summary = [text |-> "Mixed results with both improvements and regressions",
                               joined |-> <<>>]
            /\ (r.regressions = <<>> /\ r.improvements = <<>>) =>
                  r.summary = [text |-> "No significant performance changes detected",
                               joined |-> <<>>]

\* C10 witness: both lists are non-empty and the summary is the mixed one.
C10_Witness ==
    /\ Returned("compare_reports")
    /\ result.value.regressions /= <<>>
    /\ result.value.improvements /= <<>>
    /\ result.value.summary.text = "Mixed results with both improvements and regressions"

\* C11: a comparison of two reports with identical content returns
\* tps_change_pct = 0, latency_change_pct = 0, no regression, no improvement
\* and the summary "No significant performance changes detected".
C11_IdenticalReportsNoChange ==
    (Returned("compare_reports") /\ fs[args[1]].doc = fs[args[2]].doc) =>
        /\ result.value.tps_change_pct.num = 0
        /\ result.value.tps_change_pct.den > 0
        /\ result.value.latency_change_pct.num = 0
        /\ result.value.latency_change_pct.den > 0
        /\ result.value.regressions = <<>>
        /\ result.value.improvements = <<>>
        /\ result.value.summary =
              [text |-> "No significant performance changes detected", joined |-> <<>>]

\* C11 witness: two files of identical content with positive tps and latency
\* and more than 10 errors have been compared.
C11_Witness ==
    /\ Returned("compare_reports")
    /\ args[1] /= args[2]
    /\ fs[args[1]].doc = fs[args[2]].doc
    /\ BaselineOf.tps > 0
    /\ BaselineOf.avg_latency_ms > 0
    /\ BaselineOf.errors > 10
    /\ result.value.summary.text = "No significant performance changes detected"

\* The signs of two percentages (denominators positive) are opposite.
OppositeSigns(p, q) ==
    /\ p.num > 0 <=> q.num < 0
    /\ p.num = 0 <=> q.num = 0
    /\ p.num < 0 <=> q.num > 0

\* C12: when a comparison is followed by the comparison with baseline and
\* candidate swapped, tps_change_pct changes sign if both tps are nonzero, and
\* latency_change_pct changes sign if both avg_latency_ms are nonzero.
C12_SwapFlipsSign ==
    [][(/\ Returned("compare_reports")
        /\ op' = "compare_reports"
        /\ result'.kind = "return"
        /\ args' = <<args[2], args[1]>>) =>
            /\ (BaselineOf.tps /= 0 /\ ComparisonOf.tps /= 0) =>
                  OppositeSigns(result.value.tps_change_pct, result'.value.tps_change_pct)
            /\ (BaselineOf.avg_latency_ms /= 0 /\ ComparisonOf.avg_latency_ms /= 0) =>
                  OppositeSigns(result.value.latency_change_pct,
                                result'.value.latency_change_pct)]_vars

\* C12 witness: a comparison of two different files with different nonzero
\* tps and different nonzero latencies has returned a positive tps change and
\* a negative latency change.
C12_Witness ==
    /\ Returned("compare_reports")
    /\ args[1] /= args[2]
    /\ BaselineOf.tps /= 0
    /\ ComparisonOf.tps /= 0
    /\ BaselineOf.avg_latency_ms /= 0
    /\ ComparisonOf.avg_latency_ms /= 0
    /\ result.value.tps_change_pct.num > 0
    /\ result.value.latency_change_pct.num < 0

\* The mapping the claims call the field source of a report.
ClaimedSource(data) == IF data.hasSummary THEN data.summary ELSE data.top

\* The normalized value of a member: 0 when the member is not a number.
ClaimedValue(member) == IF member.t = "num" THEN member.v ELSE 0

\* The normalized numeric fields are those of the mapping `source`.
FieldsFrom(w, source) ==
    /\ w.duration_seconds = ClaimedValue(source["actual_duration_seconds"])
    /\ w.total_transactions = ClaimedValue(source["total_transactions"])
    /\ w.tps = ClaimedValue(source["tps"])
    /\ w.avg_latency_ms = ClaimedValue(source["avg_latency_ms"])
    /\ w.p50_latency_ms = ClaimedValue(source["p50_latency_ms"])
    /\ w.p95_latency_ms = ClaimedValue(source["p95_latency_ms"])
    /\ w.p99_latency_ms = ClaimedValue(source["p99_latency_ms"])
    /\ w.errors = ClaimedValue(source["errors"])

\* n is a nested report and f a flat report with the same members and mode.
ShapeEquivalent(n, f) ==
    /\ n.hasSummary
    /\ ~f.hasSummary
    /\ n.summary = f.top
    /\ n.mode = f.mode

\* C13: the analysis of a nested report and the analysis of a flat report
\* with the same field values and the same top-level mode carry identical
\* workload metrics, whatever numbers the nested report has at its top level.
C13_ShapeInvariance ==
    [][(/\ Returned("analyze_burst_report")
        /\ op' = "analyze_burst_report"
        /\ result'.kind = "return"
        /\ \/ ShapeEquivalent(fs[args[1]].doc, fs[args'[1]].doc)
           \/ ShapeEquivalent(fs[args'[1]].doc, fs[args[1]].doc)) =>
            result.value.workload = result'.value.workload]_vars

\* C13 witness: a nested report with other numbers at its top level, whose
\* flat twin is the other file, has been normalized from "summary".
C13_Witness ==
    /\ Returned("analyze_burst_report")
    /\ args[1] = "report_a"
    /\ ShapeEquivalent(fs["report_a"].doc, fs["report_b"].doc)
    /\ fs["report_a"].doc.top = ShadowFields
    /\ fs["report_a"].doc.summary = TestFields
    /\ result.value.workload.p99_latency_ms = 12 * Scale

\* C14: a report whose field source lacks any subset of the eight numeric
\* fields is normalized without failure, each absent field being 0 and each
\* present one kept; mode is the top-level "mode", or "burst" without one.
C14_AbsentFieldsDefault ==
    (/\ op = "analyze_burst_report"
     /\ fs[args[1]].content = "json"
     /\ fs[args[1]].doc.mode.t \in {"absent", "str"}
     /\ \A f \in Fields : ClaimedSource(fs[args[1]].doc)[f].t \in {"absent", "num"}) =>
        /\ result.kind = "return"
        /\ FieldsFrom(result.value.workload, ClaimedSource(fs[args[1]].doc))
        /\ result.value.workload.mode =
              (IF fs[args[1]].doc.mode.t = "absent" THEN "burst"
               ELSE fs[args[1]].doc.mode.s)

\* C14 witness: a nested report with no numeric field and no top-level mode,
\* but with a mode inside "summary", is normalized to zeros and "burst".
C14_Witness ==
    /\ Returned("analyze_burst_report")
    /\ fs[args[1]].doc.hasSummary
    /\ fs[args[1]].doc.summary = NoFields
    /\ fs[args[1]].doc.mode = StrAbsent
    /\ fs[args[1]].doc.summaryMode = Str("simulation")
    /\ result.value.workload.mode = "burst"
    /\ result.value.workload.tps = 0
    /\ result.value.workload.errors = 0

\* C15 (as claimed): a numeric field present in the field source with null
\* is normalized like a missing one: the analysis returns, with that field 0.
C15_NullFieldsDefault ==
    (/\ op = "analyze_burst_report"
     /\ fs[args[1]].content = "json"
     /\ fs[args[1]].doc.mode.t \in {"absent", "str"}
     /\ \E f \in Fields : ClaimedSource(fs[args[1]].doc)[f].t = "null") =>
        /\ result.kind = "return"
        /\ FieldsFrom(result.value.workload, ClaimedSource(fs[args[1]].doc))

\* The formats of a joined summary, in order.
Formats(lines) == [i \in 1..Len(lines) |-> lines[i].fmt]

\* The printed number `shown` is num/den rounded to the nearest integer.
Rounds(shown, num, den) ==
    LET d == shown * den - num
    IN  2 * (IF d < 0 THEN -d ELSE d) <= den

\* C16: the summary of a burst analysis joins, in this order, the P99 line
\* iff the tail-latency rule fired, the error-rate line iff errors > 0 and the
\* throughput line (tps rounded to an integer) iff tps > 0; it is "Analysis
\* complete" iff none of the three applies.
C16_BurstSummary ==
    Returned("analyze_burst_report") =>
        LET w == result.value.workload
            sm == result.value.summary
            high == w.p99_latency_ms > 100 * Scale
            errs == w.errors > 0
            thr == w.tps > 0
            d == IF w.total_transactions > 1 THEN w.total_transactions ELSE 1
        IN  /\ high <=> RecCount("work_mem") = 1
            /\ IF ~high /\ ~errs /\ ~thr
               THEN sm = [text |-> "Analysis complete", joined |-> <<>>]
               ELSE /\ sm.text = ""
                    /\ Formats(sm.joined) =
                          (IF high THEN <<"High P99 latency ({:.1f}ms)">> ELSE <<>>)
                          \o (IF errs THEN <<"Error rate: {:.2f}%">> ELSE <<>>)
                          \o (IF thr THEN <<"Throughput: {:.0f} TPS">> ELSE <<>>)
                    /\ high => Rounds(sm.joined[1].args[1], w.p99_latency_ms * 10, Scale)
                    /\ errs => Rounds(sm.joined[IF high THEN 2 ELSE 1].args[1],
                                      w.errors * 10000, d)
                    /\ thr => Rounds(sm.joined[Len(sm.joined)].args[1], w.tps, Scale)

\* C16 witness: p99 150 ms, 1 error in 100 transactions (exactly 1%, so no
\* max_connections recommendation) and tps 166.67: three lines, the last one
\* "Throughput: 167 TPS".
C16_Witness ==
    /\ Returned("analyze_burst_report")
    /\ result.value.workload.p99_latency_ms = 150 * Scale
    /\ result.value.workload.errors = 1
    /\ result.value.workload.total_transactions = 100
    /\ result.value.workload.tps = 166 * Scale + 67
    /\ RecCount("max_connections") = 0
    /\ Len(result.value.summary.joined) = 3
    /\ result.value.summary.joined[2] = Line("Error rate: {:.2f}%", <<100>>)
    /\ result.value.summary.joined[3] = Line("Throughput: {:.0f} TPS", <<167>>)

\* C17: the summary of a simulation analysis is the duration line, then the
\* timeline line iff timeline_points > 0, then the average TPS line; it is
\* never empty and never a literal.
C17_SimulationSummary ==
    Returned("analyze_simulation_report") =>
        LET w == result.value.workload
            sm == result.value.summary
            n == result.value.timeline_points
        IN  /\ sm.text = ""
            /\ Formats(sm.joined) =
                  <<"Simulated duration: {:.0f}s">>
                  \o (IF n > 0 THEN <<"Timeline points: {}">> ELSE <<>>)
                  \o <<"Avg TPS: {:.0f}">>
            /\ Rounds(sm.joined[1].args[1], w.duration_seconds, Scale)
            /\ n > 0 => sm.joined[2].args = <<n>>
            /\ Rounds(sm.joined[Len(sm.joined)].args[1], w.tps, Scale)

\* C17 witness: duration 0 and tps 0 with a timeline of data rows: three
\* lines.
C17_Witness ==
    /\ Returned("analyze_simulation_report")
    /\ result.value.workload.duration_seconds = 0
    /\ result.value.workload.tps = 0
    /\ result.value.timeline_points > 0
    /\ Len(result.value.summary.joined) = 3

\* The report at `path` is one the claims call readable and normalizable,
\* with numbers in the samples of its timeline.
WellFormedReport(path) ==
    /\ fs[path].content = "json"
    /\ fs[path].doc.mode.t \in {"absent", "str"}
    /\ \A f \in Fields : ClaimedSource(fs[path].doc)[f].t \in {"absent", "num"}
    /\ \A i \in 1..Len(fs[path].doc.timeline.items) :
          fs[path].doc.timeline.items[i].t \in {"absent", "num"}

\* C18: timeline_points of a simulation analysis is the number of lines of
\* the timeline file minus one when a path is given and the file exists, and 0
\* otherwise; without a path, or with a path that does not exist, the analysis
\* of a well-formed report does not fail.
C18_TimelinePoints ==
    /\ Returned("analyze_simulation_report") =>
          result.value.timeline_points =
              (IF args[2] /= NoPath /\ fs[args[2]].exists
               THEN fs[args[2]].lines - 1
               ELSE 0)
    /\ (/\ op = "analyze_simulation_report"
        /\ WellFormedReport(args[1])
        /\ (args[2] = NoPath \/ ~fs[args[2]].exists)) =>
          (result.kind = "return" /\ result.value.timeline_points = 0)

\* C18 witness: a timeline file of three lines gives two points.
C18_Witness ==
    /\ Returned("analyze_simulation_report")
    /\ args[2] = TimelinePath
    /\ fs[TimelinePath].exists
    /\ fs[TimelinePath].lines = 3
    /\ result.value.timeline_points = 2

\* The parameters of the returned recommendations, in order.
Parameters == [i \in 1..Len(result.value.recommendations) |->
                  result.value.recommendations[i].parameter]

\* C19 (as claimed): every analysis, burst or simulation, evaluates the three
\* rules on the normalized metrics and lists what they emit in the order
\* work_mem, max_connections, checkpoint_completion_target.
C19_AllRulesInEveryAnalysis ==
    (Returned("analyze_burst_report") \/ Returned("analyze_simulation_report")) =>
        LET w == result.value.workload
            d == IF w.total_transactions > 1 THEN w.total_transactions ELSE 1
        IN  Parameters =
              (IF w.p99_latency_ms > 100 * Scale THEN <<"work_mem">> ELSE <<>>)
              \o (IF w.errors > 0 /\ w.errors * 100 > d
                  THEN <<"max_connections">> ELSE <<>>)
              \o (IF ClaimedSpike(ClaimedSamples(fs[args[1]].doc))
                  THEN <<"checkpoint_completion_target">> ELSE <<>>)

\* C19 (amended): a burst analysis evaluates the tail-latency and the
\* error-rate rule, each on its own, and lists what they emit in the order
\* work_mem, max_connections, never the spike rule; a simulation analysis
\* evaluates the spike rule only, so it carries no work_mem or max_connections
\* recommendation whatever its p99_latency_ms and error rate are.
C19_RulesPerAnalysis ==
    /\ Returned("analyze_burst_report") =>
          LET w == result.value.workload
              d == IF w.total_transactions > 1 THEN w.total_transactions ELSE 1
          IN  Parameters =
                (IF w.p99_latency_ms > 100 * Scale THEN <<"work_mem">> ELSE <<>>)
                \o (IF w.errors > 0 /\ w.errors * 100 > d
                    THEN <<"max_connections">> ELSE <<>>)
    /\ Returned("analyze_simulation_report") =>
          Parameters =
              (IF ClaimedSpike(ClaimedSamples(fs[args[1]].doc))
               THEN <<"checkpoint_completion_target">> ELSE <<>>)

\* C19 witness: a burst analysis of a report that crosses both thresholds and
\* embeds a timeline with a spike lists work_mem, then max_connections.
C19_Witness ==
    /\ Returned("analyze_burst_report")
    /\ ClaimedSpike(ClaimedSamples(fs[args[1]].doc))
    /\ Parameters = <<"work_mem", "max_connections">>

\* C20 (as claimed): once a report is read and normalized, the analysis
\* returns a result with status "success", whatever the field values and the
\* embedded timeline are.
C20_RuleEvaluationNeverFails ==
    (/\ op \in {"analyze_burst_report", "analyze_simulation_report"}
     /\ fs[args[1]].content = "json"
     /\ Validates(fs[args[1]].doc)
     /\ (op = "analyze_simulation_report" /\ args[2] /= NoPath) =>
           fs[args[2]].content /= "undecodable") =>
        (result.kind = "return" /\ result.value.status = "success")

\* The result of the invocation of frame f when it runs alone on the files.
Alone(f) ==
    CASE f.tool = "analyze_burst_report" -> analyze_burst_report_impl(fs, f.args[1])
      [] f.tool = "analyze_simulation_report" ->
            analyze_simulation_report(fs, f.args[1], f.args[2])
      [] OTHER -> compare_reports_impl(fs, f.args[1], f.args[2])

\* A step of invocation c leaves the files, the frame of every other
\* invocation and the lists of every other invocation as they are.
StepsAreLocal ==
    \A c \in Calls :
        calls'[c] /= calls[c] =>
            /\ fs' = fs
            /\ \A d \in Calls \ {c} : calls'[d] = calls[d] /\ heap'[d] = heap[d]

\* C21: under any interleaving of the steps of concurrent invocations of
\* analyze_burst_report, analyze_simulation_report and compare_reports, every
\* invocation that ends has the outcome it has when it runs alone on the same
\* files, and no step of an invocation changes the files, the locals or the
\* lists of another invocation.
C21_InvocationsIsolated ==
    /\ [](\A c \in Calls : calls[c].pc = "done" => calls[c].outcome = Alone(calls[c]))
    /\ [][StepsAreLocal]_vars

\* C21 witness: an invocation has returned recommendations while another one,
\* on the same report, is between its rule checks and holds a different list.
C21_Witness ==
    \E c \in Calls, d \in Calls :
        /\ calls[c].pc = "done"
        /\ calls[c].outcome.kind = "return"
        /\ calls[c].tool = "analyze_burst_report"
        /\ Len(calls[c].outcome.value.recommendations) = 2
        /\ calls[d].tool = "analyze_simulation_report"
        /\ calls[d].args[1] = calls[c].args[1]
        /\ calls[d].pc = "finish"
        /\ Len(heap[d].recommendations) = 1

\* C22 (as claimed): timeline_points of every result of analyze_simulation_report
\* is a count of data rows, so it is never negative, whatever timeline file
\* exists, a file of zero lines included.
C22_TimelinePointsNeverNegative ==
    Returned("analyze_simulation_report") => result.value.timeline_points >= 0

====
